---- MODULE Spec2Model ----
(***************************************************************************)
(* Model of byteps/common/__init__.py: the BytePSBasics wrapper.  init     *)
(* derives the topology (rank, local_rank, size, local_size) from the      *)
(* environment (BYTEPS_WORKER_HOSTS, BYTEPS_WORKER_ID) unless the caller   *)
(* supplies all four values, and hands it to the native library; the       *)
(* accessors read the native library back and raise when it answers -1.    *)
(*                                                                         *)
(* Python strings are sequences of one-character strings.  An optional     *)
(* value (None or a value) is a sequence of length 0 or 1.                 *)
(***************************************************************************)
EXTENDS Integers, Sequences, FiniteSets, TLC

\* environ        the process environment that os.getenv reads
\* lib            the state of the native library behind MPI_LIB_CTYPES
\* ret            the outcome of the last call on a BytePSBasics object
\* initSucceeded  history: whether some native initialize has returned status 0
\* first          history: the outcome of the first init that read the environment
\* procs          the processes of a cluster: what each reached line 74 with
VARIABLES environ, lib, ret, initSucceeded, first, procs

vars == <<environ, lib, ret, initSucceeded, first, procs>>

\* ------------------------------------------------------------------ bounds

\* Longest worker list placed in BYTEPS_WORKER_HOSTS.
MaxWorkers == 3

\* ------------------------------------------------------- optional values

None == <<>>

Some(x) == <<x>>

IsNone(o) == Len(o) = 0

Val(o) == o[1]

\* ------------------------------------------------------- Python builtins

\* str.split(sep) with a one-character separator: the pieces between the
\* separators, empty pieces kept; a string without separator gives one piece.
RECURSIVE SplitAcc(_, _, _, _)
SplitAcc(s, sep, cur, out) ==
    IF Len(s) = 0 THEN Append(out, cur)
    ELSE IF Head(s) = sep
         THEN SplitAcc(Tail(s), sep, <<>>, Append(out, cur))
         ELSE SplitAcc(Tail(s), sep, Append(cur, Head(s)), out)

split(s, sep) == SplitAcc(s, sep, <<>>, <<>>)

Digits == {"0", "1", "2", "3", "4", "5", "6", "7", "8", "9"}

DigitVal(c) ==
    CASE c = "0" -> 0 [] c = "1" -> 1 [] c = "2" -> 2 [] c = "3" -> 3
      [] c = "4" -> 4 [] c = "5" -> 5 [] c = "6" -> 6 [] c = "7" -> 7
      [] c = "8" -> 8 [] c = "9" -> 9

\* The digits of an int literal after its optional sign.
IntBody(s) == IF Len(s) > 0 /\ Head(s) \in {"-", "+"} THEN Tail(s) ELSE s

\* Whether int(s) accepts the string: an optional sign, then one or more digits.
IsIntLiteral(s) ==
    /\ Len(IntBody(s)) > 0
    /\ \A i \in 1..Len(IntBody(s)) : IntBody(s)[i] \in Digits

RECURSIVE DigitsValue(_, _)
DigitsValue(ds, acc) ==
    IF Len(ds) = 0 THEN acc
    ELSE DigitsValue(Tail(ds), 10 * acc + DigitVal(Head(ds)))

\* int(s) for a string that IsIntLiteral accepts.
int(s) ==
    IF Head(s) = "-" THEN 0 - DigitsValue(IntBody(s), 0)
    ELSE DigitsValue(IntBody(s), 0)

\* seq[i] with Python's indexing: 0-based, a negative index counts from the end.
InIndexRange(seq, i) == i < Len(seq) /\ i >= 0 - Len(seq)

getitem(seq, i) == IF i >= 0 THEN seq[i + 1] ELSE seq[Len(seq) + i + 1]

\* ctypes.c_int(x): the value as a C int.  Every integer of this model lies in
\* [-2^31, 2^31), where the conversion keeps the value.
c_int(x) == x

\* ----------------------------------------------------------- derivation

\* The outcome of the derivation: the exception raised ("" for none) and the
\* four values; local_rank is optional, as in the code, where it keeps the
\* caller's value until line 71 assigns it.  assigned tells whether line 71 ran.
Raise(exc) ==
    [raised |-> exc, rank |-> 0, local_rank |-> None, size |-> 0, local_size |-> 0,
     assigned |-> FALSE]

\* One iteration of the loop of lines 67-72 on the accumulator acc.
ScanStepFirstWins(acc, worker, my_ip, my_port) ==
    LET parts == split(worker, ":") IN
    IF Len(parts) # 2 THEN [acc EXCEPT !.raised = "ValueError"]
    ELSE IF parts[1] = my_ip
         THEN [acc EXCEPT
                 !.local_rank = IF parts[2] = my_port /\ ~acc.assigned
                                THEN Some(acc.local_size) ELSE @,
                 !.assigned = @ \/ parts[2] = my_port,
                 !.local_size = @ + 1]
         ELSE acc

ScanStepAfterIncrement(acc, worker, my_ip, my_port) ==
    LET parts == split(worker, ":") IN
    IF Len(parts) # 2 THEN [acc EXCEPT !.raised = "ValueError"]
    ELSE IF parts[1] = my_ip
         THEN [acc EXCEPT
                 !.local_rank = IF parts[2] = my_port
                                THEN Some(acc.local_size + 1) ELSE @,
                 !.assigned = @ \/ parts[2] = my_port,
                 !.local_size = @ + 1]
         ELSE acc

ScanStepSkipMalformed(acc, worker, my_ip, my_port) ==
    LET parts == split(worker, ":") IN
    IF Len(parts) # 2 THEN acc
    ELSE IF parts[1] = my_ip
         THEN [acc EXCEPT
                 !.local_rank = IF parts[2] = my_port
                                THEN Some(acc.local_size) ELSE @,
                 !.assigned = @ \/ parts[2] = my_port,
                 !.local_size = @ + 1]
         ELSE acc

ScanStepStopAtMatch(acc, worker, my_ip, my_port) ==
    LET parts == split(worker, ":") IN
    IF Len(parts) # 2 THEN [acc EXCEPT !.raised = "ValueError"]
    ELSE IF parts[1] = my_ip /\ ~acc.assigned
         THEN [acc EXCEPT
                 !.local_rank = IF parts[2] = my_port
                                THEN Some(acc.local_size) ELSE @,
                 !.assigned = @ \/ parts[2] = my_port,
                 !.local_size = @ + 1]
         ELSE acc

ScanStepKeepSupplied(acc, worker, my_ip, my_port) ==
    LET parts == split(worker, ":") IN
    IF Len(parts) # 2 THEN [acc EXCEPT !.raised = "ValueError"]
    ELSE IF parts[1] = my_ip
         THEN [acc EXCEPT
                 !.local_rank = IF parts[2] = my_port /\ IsNone(@)
                                THEN Some(acc.local_size) ELSE @,
                 !.assigned = @ \/ parts[2] = my_port,
                 !.local_size = @ + 1]
         ELSE acc

ScanStepPortOnly(acc, worker, my_ip, my_port) ==
    LET parts == split(worker, ":") IN
    IF Len(parts) # 2 THEN [acc EXCEPT !.raised = "ValueError"]
    ELSE [acc EXCEPT
            !.local_rank = IF parts[2] = my_port THEN Some(acc.local_size) ELSE @,
            !.assigned = @ \/ parts[2] = my_port,
            !.local_size = IF parts[1] = my_ip THEN @ + 1 ELSE @]

ScanStep(acc, worker, my_ip, my_port) ==
    LET parts == split(worker, ":") IN
    IF Len(parts) # 2 THEN [acc EXCEPT !.raised = "ValueError"]
    ELSE IF parts[1] = my_ip
         THEN [acc EXCEPT
                 !.local_rank = IF parts[2] = my_port
                                THEN Some(acc.local_size) ELSE @,
                 !.assigned = @ \/ parts[2] = my_port,
                 !.local_size = @ + 1]
         ELSE acc

\* The loop of lines 67-72 over the workers left; it stops at the first worker
\* whose split raises.
RECURSIVE Scan(_, _, _, _)
Scan(acc, workers, my_ip, my_port) ==
    IF Len(workers) = 0 \/ acc.raised # "" THEN acc
    ELSE Scan(ScanStep(acc, Head(workers), my_ip, my_port), Tail(workers),
              my_ip, my_port)

\* Lines 62-72: the topology derived from the environment env; local_rank0 is
\* the caller's local_rank, the value the variable holds when the loop starts.
Derive(env, local_rank0) ==
    IF IsNone(env.BYTEPS_WORKER_HOSTS) THEN Raise("AttributeError")
    ELSE
    LET workers == split(Val(env.BYTEPS_WORKER_HOSTS), ",") IN
    IF IsNone(env.BYTEPS_WORKER_ID) THEN Raise("TypeError")
    ELSE IF ~IsIntLiteral(Val(env.BYTEPS_WORKER_ID)) THEN Raise("ValueError")
    ELSE
    LET r == int(Val(env.BYTEPS_WORKER_ID)) IN
    IF ~InIndexRange(workers, r) THEN Raise("IndexError")
    ELSE
    LET mine == split(getitem(workers, r), ":") IN
    IF Len(mine) # 2 THEN Raise("ValueError")
    ELSE Scan([raised |-> "", rank |-> r, local_rank |-> local_rank0,
               size |-> Len(workers), local_size |-> 0, assigned |-> FALSE],
              workers, mine[1], mine[2])

\* ------------------------------------------------------- native library

\* The state of the loaded native library (MPI_LIB_CTYPES): whether a topology
\* is established, and the topology.
LibUninitialized ==
    [initialized |-> FALSE, rank |-> 0, local_rank |-> 0, size |-> 0, local_size |-> 0]

\* initialize(rank, local_rank, size, local_size) -> status_code: status 0
\* establishes the topology, any other status leaves the library as it was.
byteps_init(l, r, lr, s, ls, status) ==
    IF status = 0
    THEN [initialized |-> TRUE, rank |-> r, local_rank |-> lr, size |-> s,
          local_size |-> ls]
    ELSE l

StatusCodes == {0, 1}

\* shutdown() -> status_code: the library gives its topology up.
byteps_shutdown(l) == LibUninitialized

\* The accessors: the established integer, or the sentinel -1 "uninitialized".
byteps_size(l) == IF l.initialized THEN l.size ELSE -1

byteps_local_size(l) == IF l.initialized THEN l.local_size ELSE -1

byteps_rank(l) == IF l.initialized THEN l.rank ELSE -1

byteps_local_rank(l) == IF l.initialized THEN l.local_rank ELSE -1

\* ------------------------------------------------------------ operations

NoCall == [rank |-> 0, local_rank |-> 0, size |-> 0, local_size |-> 0]

NoArgs == <<None, None, None, None>>

\* What the last operation did: the method, the object it was called on, the
\* caller's arguments, whether init consulted the environment, the exception
\* raised ("" for none), whether and with what the native initialize was called,
\* and the value returned.
Outcome(op, self, args, via_env, raised, called, call, value, assigned) ==
    [op |-> op, self |-> self, args |-> args, via_env |-> via_env,
     raised |-> raised, called |-> called, call |-> call, value |-> value,
     assigned |-> assigned]

NoOutcome == Outcome("", 0, NoArgs, FALSE, "", FALSE, NoCall, 0, FALSE)

\* Line 61: whether init derives the topology from the environment.
UsesEnvironmentRankOnly(r, lr, s, ls) == IsNone(r)

UsesEnvironment(r, lr, s, ls) == IsNone(r) \/ IsNone(lr) \/ IsNone(s) \/ IsNone(ls)

\* Lines 61-72: the four values init holds when it reaches line 74, as optional
\* values, with the exception raised on the way ("" for none).
Topology(env, r, lr, s, ls) ==
    IF UsesEnvironment(r, lr, s, ls)
    THEN LET d == Derive(env, lr) IN
         [raised |-> d.raised, assigned |-> d.assigned,
          vals |-> <<Some(d.rank), d.local_rank, Some(d.size), Some(d.local_size)>>]
    ELSE [raised |-> "", assigned |-> FALSE, vals |-> <<r, lr, s, ls>>]

\* BytePSBasics.init, lines 59-76.  c_int(None) raises TypeError.
init(self, r, lr, s, ls) ==
    /\ \E t \in {Topology(environ, r, lr, s, ls)} :
       LET via_env == IsNone(r) \/ IsNone(lr) \/ IsNone(s) \/ IsNone(ls)
           args == <<r, lr, s, ls>>
       IN
       IF t.raised # ""
       THEN /\ ret' = Outcome("init", self, args, via_env, t.raised, FALSE, NoCall, 0,
                              t.assigned)
            /\ UNCHANGED <<lib, initSucceeded>>
       ELSE IF \E i \in 1..4 : IsNone(t.vals[i])
       THEN /\ ret' = Outcome("init", self, args, via_env, "TypeError", FALSE, NoCall,
                              0, t.assigned)
            /\ UNCHANGED <<lib, initSucceeded>>
       ELSE \E status \in StatusCodes :
            \E call \in {[rank |-> c_int(Val(t.vals[1])),
                          local_rank |-> c_int(Val(t.vals[2])),
                          size |-> c_int(Val(t.vals[3])),
                          local_size |-> c_int(Val(t.vals[4]))]} :
            /\ lib' = byteps_init(lib, call.rank, call.local_rank, call.size,
                                  call.local_size, status)
            /\ initSucceeded' = (initSucceeded \/ status = 0)
            /\ ret' = Outcome("init", self, args, via_env, "", TRUE, call, status,
                              t.assigned)
    /\ UNCHANGED environ

\* BytePSBasics.shutdown, lines 78-80.
shutdown(self) ==
    /\ lib' = byteps_shutdown(lib)
    /\ ret' = Outcome("shutdown", self, NoArgs, FALSE, "", FALSE, NoCall, 0, FALSE)
    /\ UNCHANGED <<environ, initSucceeded>>

\* The body the four accessors share: raise ValueError on -1, else return.
Accessor(op, self, v) ==
    /\ ret' = IF v = -1
              THEN Outcome(op, self, NoArgs, FALSE, "ValueError", FALSE, NoCall, 0,
                           FALSE)
              ELSE Outcome(op, self, NoArgs, FALSE, "", FALSE, NoCall, v, FALSE)
    /\ UNCHANGED <<environ, lib, initSucceeded>>

\* BytePSBasics.size, lines 82-91.
size(self) == Accessor("size", self, byteps_size(lib))

\* BytePSBasics.local_size, lines 93-103.
local_size(self) == Accessor("local_size", self, byteps_local_size(lib))

\* BytePSBasics.rank, lines 105-114.
rank(self) == Accessor("rank", self, byteps_rank(lib))

\* BytePSBasics.local_rank, lines 116-127.
local_rank(self) == Accessor("local_rank", self, byteps_local_rank(lib))

\* ----------------------------------------------------------- environment

Endpoint(ip, port) == <<ip, ":", port>>

\* Endpoint strings: three that split into ip and port (two on one host), one
\* with no ":" and one with two.
WellFormed == {Endpoint("a", "1"), Endpoint("a", "2"), Endpoint("b", "1")}

Malformed == {<<"a">>, <<"a", ":", "1", ":", "2">>}

RECURSIVE Join(_, _)
Join(list, sep) ==
    IF Len(list) = 0 THEN <<>>
    ELSE IF Len(list) = 1 THEN Head(list)
    ELSE Head(list) \o <<sep>> \o Join(Tail(list), sep)

Lists(tokens, n) == UNION {[1..k -> tokens] : k \in 0..n}

HostStrings(tokens, n) == {Join(l, ",") : l \in Lists(tokens, n)}

\* Values of BYTEPS_WORKER_ID: indices in and out of range of the lists, from
\* the front and from the end, and strings int() rejects.
WorkerIds ==
    {<<"0">>, <<"1">>, <<"2">>, <<"3">>, <<"9">>, <<"-", "1">>, <<"-", "3">>,
     <<"-", "9">>, <<"0", "2">>, <<"x">>, <<>>}

Environments(hosts, ids) ==
    [BYTEPS_WORKER_HOSTS : {None} \cup {Some(h) : h \in hosts},
     BYTEPS_WORKER_ID : {None} \cup {Some(i) : i \in ids}]

\* ------------------------------------------------- derivation from the env

\* A process whose environment is any of Environments calls init, leaving the
\* topology to the environment; it may pass a local_rank of its own.
SuppliedLocalRanks == {None, Some(5)}

Init ==
    /\ environ \in Environments(HostStrings(WellFormed \cup Malformed, MaxWorkers),
                                WorkerIds)
    /\ lib = LibUninitialized
    /\ ret = NoOutcome
    /\ initSucceeded = FALSE
    /\ first = None
    /\ procs = <<>>

InitFromEnv ==
    /\ \E lr \in SuppliedLocalRanks : init(1, None, lr, None, None)
    /\ UNCHANGED <<first, procs>>

Next == InitFromEnv

Spec == Init /\ [][Next]_vars

\* ------------------------------------------------------------ lifecycle

\* A process calls init, shutdown and the accessors in any order, on either of
\* two BytePSBasics objects (both hold the one loaded library), passing init any
\* mix of omitted and supplied values.
Objects == {1, 2}

\* What a caller passes for each parameter: nothing, or a value that no
\* environment of LifeHosts and LifeIds derives for it.
CallerRanks == {None, Some(3)}

CallerLocalRanks == {None, Some(2)}

CallerSizes == {None, Some(5)}

CallerLocalSizes == {None, Some(4)}

LifeHosts ==
    {Join(<<Endpoint("a", "1"), Endpoint("a", "2")>>, ","),
     Join(<<Endpoint("a", "1"), Endpoint("a", "1")>>, ",")}

LifeIds == {<<"0">>, <<"-", "1">>}

\* The part of an init outcome that the derivation decides.
Derived(o) == [self |-> o.self, raised |-> o.raised, called |-> o.called, call |-> o.call]

InitLife ==
    /\ environ \in Environments(LifeHosts, LifeIds)
    /\ lib = LibUninitialized
    /\ ret = NoOutcome
    /\ initSucceeded = FALSE
    /\ first = None
    /\ procs = <<>>

\* init; first keeps the outcome of the first init that consulted the environment.
CallInit ==
    /\ \E self \in Objects :
          \E r \in CallerRanks, lr \in CallerLocalRanks, s \in CallerSizes,
             ls \in CallerLocalSizes : init(self, r, lr, s, ls)
    /\ first' = IF IsNone(first) /\ ret'.via_env THEN Some(Derived(ret')) ELSE first
    /\ UNCHANGED procs

CallShutdown == (\E self \in Objects : shutdown(self)) /\ UNCHANGED <<first, procs>>

CallSize == (\E self \in Objects : size(self)) /\ UNCHANGED <<first, procs>>

CallLocalSize == (\E self \in Objects : local_size(self)) /\ UNCHANGED <<first, procs>>

CallRank == (\E self \in Objects : rank(self)) /\ UNCHANGED <<first, procs>>

CallLocalRank == (\E self \in Objects : local_rank(self)) /\ UNCHANGED <<first, procs>>

NextLife ==
    \/ CallInit
    \/ CallShutdown
    \/ CallSize
    \/ CallLocalSize
    \/ CallRank
    \/ CallLocalRank

SpecLife == InitLife /\ [][NextLife]_vars

\* -------------------------------------------------------------- cluster

\* str(n) for n >= 0: the launcher writes each process's index into its
\* BYTEPS_WORKER_ID.
DigitChar(d) ==
    CASE d = 0 -> "0" [] d = 1 -> "1" [] d = 2 -> "2" [] d = 3 -> "3" [] d = 4 -> "4"
      [] d = 5 -> "5" [] d = 6 -> "6" [] d = 7 -> "7" [] d = 8 -> "8" [] d = 9 -> "9"

RECURSIVE str(_)
str(n) == IF n < 10 THEN <<DigitChar(n)>> ELSE str(n \div 10) \o <<DigitChar(n % 10)>>

\* One process per endpoint of a shared BYTEPS_WORKER_HOSTS; procs[k] is what the
\* process of index k - 1 reached line 74 with, once it has called init().
InitCluster ==
    /\ \E h \in HostStrings(WellFormed \cup {<<"a">>}, MaxWorkers) :
          /\ environ = [BYTEPS_WORKER_HOSTS |-> Some(h), BYTEPS_WORKER_ID |-> None]
          /\ procs = [k \in 1..Len(split(h, ",")) |-> None]
    /\ lib = LibUninitialized
    /\ ret = NoOutcome
    /\ initSucceeded = FALSE
    /\ first = None

RunProcess ==
    /\ \E k \in 1..Len(procs) :
          /\ IsNone(procs[k])
          /\ procs' = [procs EXCEPT ![k] =
                 Some(Topology([environ EXCEPT !.BYTEPS_WORKER_ID = Some(str(k - 1))],
                               None, None, None, None))]
    /\ UNCHANGED <<environ, lib, ret, initSucceeded, first>>

NextCluster == RunProcess

SpecCluster == InitCluster /\ [][NextCluster]_vars

\* ------------------------------------------- the environment, read directly

\* The endpoint list of the environment (empty when the variable is unset) and
\* the facts about it that the claims speak of, counted over index sets rather
\* than by the scan.
EnvWorkers ==
    IF IsNone(environ.BYTEPS_WORKER_HOSTS) THEN <<>>
    ELSE split(Val(environ.BYTEPS_WORKER_HOSTS), ",")

NWorkers == Len(EnvWorkers)

IsEndpoint(w) == Len(split(w, ":")) = 2

IpOf(w) == split(w, ":")[1]

PortOf(w) == split(w, ":")[2]

ListWellFormed ==
    /\ ~IsNone(environ.BYTEPS_WORKER_HOSTS)
    /\ \A k \in 1..NWorkers : IsEndpoint(EnvWorkers[k])

\* The endpoint list is empty: the variable is unset or holds the empty string.
ListEmpty ==
    \/ IsNone(environ.BYTEPS_WORKER_HOSTS)
    \/ Len(Val(environ.BYTEPS_WORKER_HOSTS)) = 0

IdIsInt ==
    /\ ~IsNone(environ.BYTEPS_WORKER_ID)
    /\ IsIntLiteral(Val(environ.BYTEPS_WORKER_ID))

MyRank == int(Val(environ.BYTEPS_WORKER_ID))

\* A well-formed list and a myRank with 0 <= myRank < len(list).
ValidInput == ListWellFormed /\ IdIsInt /\ MyRank >= 0 /\ MyRank < NWorkers

\* The position (from 1) of the endpoint that workers[r] reads.
Pos(r) == IF r >= 0 THEN r + 1 ELSE NWorkers + r + 1

SameEndpoint(j, k) ==
    /\ IpOf(EnvWorkers[j]) = IpOf(EnvWorkers[k])
    /\ PortOf(EnvWorkers[j]) = PortOf(EnvWorkers[k])

SameIp(j, k) == IpOf(EnvWorkers[j]) = IpOf(EnvWorkers[k])

\* The number of endpoints before position k that share its ip.
SameIpBefore(k, upto) == Cardinality({j \in 1..(upto - 1) : SameIp(j, k)})

SameIpCount(k) == Cardinality({j \in 1..NWorkers : SameIp(j, k)})

\* The last position holding the same (ip, port) as position k.
LastSame(k) ==
    CHOOSE j \in k..NWorkers :
        SameEndpoint(j, k) /\ \A m \in (j + 1)..NWorkers : ~SameEndpoint(m, k)

EnvInit == ret.op = "init" /\ ret.via_env

\* ------------------------------------------------------------------ claims

\* C1: for a non-empty well-formed endpoint list and 0 <= myRank < len(list),
\* init reaches the native initialize call with 0 <= local_rank < local_size
\* <= size and 0 <= rank < size, duplicates of an (ip, port) included.
C1_TopologyInvariant ==
    (EnvInit /\ ValidInput) =>
        /\ ret.raised = "" /\ ret.called
        /\ 0 <= ret.call.local_rank
        /\ ret.call.local_rank < ret.call.local_size
        /\ ret.call.local_size <= ret.call.size
        /\ 0 <= ret.call.rank
        /\ ret.call.rank < ret.call.size

\* C1 witness: a call derived from a list that repeats the caller's own
\* (ip, port), with the highest local_rank the list allows.
C1_Witness ==
    /\ EnvInit /\ ValidInput /\ ret.called
    /\ \E j \in 1..NWorkers : j # MyRank + 1 /\ SameEndpoint(j, MyRank + 1)
    /\ ret.call.local_rank = ret.call.local_size - 1
    /\ ret.call.local_rank > 0

C4_SizeRankLocalSize ==
    (EnvInit /\ ValidInput) =>
        /\ ret.called
        /\ ret.call.size = NWorkers
        /\ ret.call.rank = MyRank
        /\ ret.call.local_size = SameIpCount(MyRank + 1)

\* C4 witness: a same-ip endpoint after index myRank was counted.
C4_Witness ==
    /\ EnvInit /\ ValidInput /\ ret.called
    /\ \E j \in (MyRank + 2)..NWorkers : SameIp(j, MyRank + 1)
    /\ ret.call.local_size = SameIpCount(MyRank + 1)
    /\ ret.call.local_size > ret.call.local_rank + 1

\* C5 as stated: a myRank below 0 or at or above the number of endpoints makes
\* the derivation fail, and the native initialize is not called.
C5_OutOfBoundsFails ==
    (EnvInit /\ ~IsNone(environ.BYTEPS_WORKER_HOSTS) /\ IdIsInt
        /\ (MyRank < 0 \/ MyRank >= NWorkers)) =>
        /\ ret.raised # ""
        /\ ~ret.called

\* C6: an empty endpoint list, or an endpoint anywhere in the list that does
\* not split on ":" into exactly two substrings, makes the derivation raise,
\* and the native initialize is not called.
C6_MalformedFails ==
    (EnvInit /\ (ListEmpty \/ ~ListWellFormed)) =>
        /\ ret.raised # ""
        /\ ~ret.called

\* C6 witness: the scan had already assigned local_rank when an endpoint at
\* another index than myRank failed to split.
C6_Witness ==
    /\ EnvInit /\ ~ListWellFormed /\ IdIsInt
    /\ InIndexRange(EnvWorkers, MyRank)
    /\ IsEndpoint(getitem(EnvWorkers, MyRank))
    /\ ret.assigned
    /\ ret.raised = "ValueError"
    /\ ~ret.called

Done(k) == ~IsNone(procs[k])

Ran(k) == Val(procs[k])

LocalRankOf(k) == Val(Ran(k).vals[2])

LocalSizeOf(k) == Val(Ran(k).vals[4])

Group(k) == {j \in 1..NWorkers : SameIp(j, k)}

Accessors == {"size", "local_size", "rank", "local_rank"}

Established(op) ==
    CASE op = "size" -> lib.size
      [] op = "local_size" -> lib.local_size
      [] op = "rank" -> lib.rank
      [] op = "local_rank" -> lib.local_rank

C7_AccessorContract ==
    ret.op \in Accessors =>
        /\ ~initSucceeded => ret.raised = "ValueError"
        /\ lib.initialized => (ret.raised = "" /\ ret.value = Established(ret.op))

\* C8: every init that consults the environment ends as the first one did, with
\* the same exception or the same four values, whatever object it is called on,
\* whatever the caller supplied and whatever was called in between.
C8_Deterministic ==
    (~IsNone(first) /\ EnvInit) =>
        /\ ret.raised = Val(first).raised
        /\ ret.called = Val(first).called
        /\ ret.call = Val(first).call

\* C8 witness: a second derivation, on the other object, with a local_rank
\* supplied and after a successful initialize, passed on the same values.
C8_Witness ==
    /\ ~IsNone(first) /\ EnvInit
    /\ ret.self # Val(first).self
    /\ ~IsNone(ret.args[2])
    /\ Val(first).called /\ ret.called
    /\ ret.call = Val(first).call
    /\ initSucceeded /\ ret.value = 1

\* C9: when the caller supplies all four values, the native initialize gets
\* them unchanged, whatever the environment holds; when one is omitted, the
\* call is decided by the environment alone: it is made whenever the
\* environment yields a topology, with the four values of the environment.
AllSupplied == \A i \in 1..4 : ~IsNone(ret.args[i])

EnvUsable ==
    /\ ListWellFormed /\ IdIsInt
    /\ InIndexRange(EnvWorkers, MyRank)

C9_AllOrNothing ==
    ret.op = "init" =>
        IF AllSupplied
        THEN /\ ret.raised = "" /\ ret.called
             /\ ret.call = [rank |-> Val(ret.args[1]), local_rank |-> Val(ret.args[2]),
                            size |-> Val(ret.args[3]), local_size |-> Val(ret.args[4])]
        ELSE /\ ret.called <=> EnvUsable
             /\ ret.called =>
                    ret.call = [rank |-> MyRank,
                                local_rank |-> SameIpBefore(Pos(MyRank), LastSame(Pos(MyRank))),
                                size |-> NWorkers,
                                local_size |-> SameIpCount(Pos(MyRank))]

\* C9 witness: three of the four values were supplied, and none of them
\* reached the native call.
C9_Witness ==
    /\ ret.op = "init" /\ ret.called
    /\ ~IsNone(ret.args[1]) /\ ~IsNone(ret.args[2]) /\ ~IsNone(ret.args[3])
    /\ IsNone(ret.args[4])
    /\ ret.call.rank # Val(ret.args[1])
    /\ ret.call.local_rank # Val(ret.args[2])
    /\ ret.call.size # Val(ret.args[3])

====
